---- MODULE Spec2Model ----
(***************************************************************************)
(* The Device Session Adapter and Stream Relay of the Hikvision Enviz      *)
(* integration (custom_components/hikvision_enviz/hikvision_api.py,        *)
(* class HikvisionEnvizAPI), as a state machine.                           *)
(*                                                                         *)
(* One HikvisionEnvizAPI object is modelled.  Its coroutines run on the    *)
(* single-threaded host event loop; a coroutine without an await in its    *)
(* body is one atomic action.  connect() calls the blocking test_stream(), *)
(* which waits on the queue the native thread fills: connect is therefore  *)
(* split at the queue.get() calls and every other host-loop operation is   *)
(* disabled while it runs (pc # "idle").  The native SDK thread delivers   *)
(* buffers to the registered callback at any time.                         *)
(*                                                                         *)
(* The vendor SDK is a closed binary.  Its state is modelled by the calls  *)
(* the adapter issues: a login handle is live from a successful            *)
(* NET_DVR_Login_* until NET_DVR_Logout is issued for it; a preview handle *)
(* is live from a successful NET_DVR_RealPlay_V40 until                    *)
(* NET_DVR_StopRealPlay is issued for it.  Each outcome of a native call   *)
(* is an action of its own.  Buffers are delivered for a preview only      *)
(* while the login it was opened with is logged in.  NET_DVR_Init and      *)
(* NET_DVR_Cleanup act on the process-wide runtime; they are recorded as   *)
(* calls and change nothing else here.                                     *)
(*                                                                         *)
(* Spec follows that one adapter.  RelaySpec adds the adapter's            *)
(* async_camera_image(), one more consumer of its queue.  HostSpec is the  *)
(* host application around the adapters: the config flow                   *)
(* (config_flow.py), the set-up and unload of entries (__init__.py) and    *)
(* the camera entity (camera.py), with one adapter per entry and           *)
(* connect() and test_connection() taken by the ways they can end.         *)
(***************************************************************************)
EXTENDS Integers, Sequences, FiniteSets, TLC

\* Previews the native layer grants in total; preview handles are 0 .. MaxSessions-1
\* and are never reused, so a handle also names its streaming session.
MaxSessions == 2
\* Buffers the native layer delivers per preview: the system header, then payloads.
MaxBuffers == 2
\* Frames test_stream() collects before it stops (100 in the source, line 553),
\* scaled down.
TestFrames == 1
\* Hosts the user configures; a config entry is named by its host.
MaxEntries == 2
\* Logins the device side accepts at the same time, over all adapters of the process.
MaxLogins == 2

Entries == 1 .. MaxEntries

VARIABLES
    _user_id,           \* self._user_id: login handle, -1 when none
    _connected,         \* self._connected
    _play_handle,       \* self._play_handle: preview of start_stream / test_stream
    _real_play_handle,  \* self._real_play_handle: preview of get_snapshot
    _play_ctrl_port,    \* self._play_ctrl_port.value
    _running,           \* self._running: guard of the MJPEG handler loop
    _stream_data,       \* self._stream_data: queue.Queue(), FIFO
    _current_frame,     \* self._current_frame: "None" or "frame"
    logins,             \* native: login handles not yet logged out
    pv,                 \* native: pv[h+1] is the record of preview handle h
    pc,                 \* where connect() stands: "idle", "test_loop", "test_stop"
    frames_received,    \* local of test_stream(), 0 outside it
    handler,            \* the _handle_mjpeg_stream coroutine: "idle" or "loop"
    handed,             \* start_stream() has returned the handler at least once
    stream_sess,        \* preview handle opened by the latest successful start_stream, -1 if none
    delivered,          \* frames the handler took from the queue since stream_sess was opened
    last,               \* the latest operation: name, result, fields before it, and its predecessor
    calls,              \* native calls issued by the latest operation, in order
    config_entries,     \* host: the entries the config flow created, named by their host
    hass_data,          \* host: hass.data[DOMAIN], the adapters stored, one per entry at most
    entities,           \* host: the camera entities of the entries whose platform is set up
    garbage,            \* login handles of adapters nothing refers to, not yet finalised
    host                \* the latest call of the host application and what came of it

\* What the host application holds: its config entries, the adapters stored in
\* hass.data, the camera entities, the adapters dropped while still logged in, and
\* the record of its latest call.
hostVars == << config_entries, hass_data, entities, garbage, host >>

vars == << _user_id, _connected, _play_handle, _real_play_handle, _play_ctrl_port,
           _running, _stream_data, _current_frame, logins, pv, pc, frames_received,
           handler, handed, stream_sess, delivered, last, calls, hostVars >>

\* The persisted Session fields the claims speak about.
Fields == << _user_id, _connected, _play_handle, _real_play_handle >>

fieldVars == << _user_id, _connected, _play_handle, _real_play_handle >>
nativeVars == << logins, pv >>
relayVars == << _running, _stream_data, handler, handed, stream_sess, delivered >>

Fresh == << -1, FALSE, -1, -1 >>

\* ---------------------------------------------------------------- native layer

\* The handle NET_DVR_Login_* returns on success: the smallest one not in use.
NewLogin == CHOOSE u \in 0 .. Cardinality(logins) : u \notin logins

\* The handle NET_DVR_RealPlay_V40 returns on success.
NewPreview == Len(pv)

\* NET_DVR_RealPlay_V40 can succeed: the login handle is a live one.
CanPlay(uid) == uid \in logins /\ Len(pv) < MaxSessions

\* pv after a successful NET_DVR_RealPlay_V40(uid, ..), registering callback cb.
\* st: "live" while buffers are delivered; "orphan" once the login it was opened with
\* is logged out without the preview having been stopped; "stopped" after
\* NET_DVR_StopRealPlay.  sent counts the buffers delivered so far.
Opened(uid, cb) == Append(pv, [st |-> "live", user |-> uid, cb |-> cb, sent |-> 0])

\* pv after NET_DVR_StopRealPlay(h); a handle the SDK does not know is ignored.
Stopped(p, h) ==
    IF h + 1 \in DOMAIN p
        THEN [p EXCEPT ![h + 1] = [st |-> "stopped", user |-> @.user, cb |-> @.cb, sent |-> 0]]
        ELSE p

\* pv after NET_DVR_Logout(uid): the device connection of uid is closed, its previews
\* receive no more buffers, but none of them has been stopped.
LoggedOut(p, uid) ==
    [ i \in DOMAIN p |->
        IF p[i].st = "live" /\ p[i].user = uid
            THEN [st |-> "orphan", user |-> uid, cb |-> p[i].cb, sent |-> 0]
            ELSE p[i] ]

\* Preview handles that were opened and for which NET_DVR_StopRealPlay was not issued.
LivePreviews == { h \in 0 .. Len(pv) - 1 : pv[h + 1].st # "stopped" }

\* Preview handles the native thread still delivers buffers for.
Delivering == { h \in 0 .. Len(pv) - 1 : pv[h + 1].st = "live" }

\* ------------------------------------------------------------------- host

\* The adapter object stored in hass.data for entry e: the fields the host's calls
\* depend on.
Api(e, uid, connected, handle) ==
    [ entry |-> e, _user_id |-> uid, _connected |-> connected, _play_handle |-> handle ]

\* hass.data[DOMAIN] holds an adapter for entry e.
Stored(e) == \E a \in hass_data : a.entry = e

ApiOf(e) == CHOOSE a \in hass_data : a.entry = e

\* The camera entity of entry e with its _stream field, "None" or "stream".
Entity(e, stream) == [ entry |-> e, _stream |-> stream ]

HasEntity(e) == \E c \in entities : c.entry = e

EntityOf(e) == CHOOSE c \in entities : c.entry = e

\* The host application has called nothing yet.
NoCall ==
    [ op |-> "none", entry |-> 0, path |-> "none", ret |-> "None", errors |-> "none",
      others |-> 0 ]

\* The adapters of the process that are marked connected, the one stored for entry
\* self and the dropped one holding login dead left aside.
OthersConnected(self, dead) ==
    Cardinality({ a \in hass_data : a.entry # self /\ a._connected })
        + Cardinality(garbage \ { dead })

\* The record of a call of the host application that starts now.
HostCall(op, e, path, ret, errors, dead) ==
    host' = [ op |-> op, entry |-> e, path |-> path, ret |-> ret, errors |-> errors,
              others |-> OthersConnected(e, dead) ]

\* ------------------------------------------------------------- bookkeeping

\* The record of an operation that starts now.  pre: the Session fields before it.
\* looping, kept for stop_stream(): the MJPEG handler loop is running when it is
\* called.  round_trip, kept for disconnect(): the operation before it was a
\* connect() on a Session in its constructed state.
\* args: the arguments it was called with, where it has any.
BeginWith(op, ret, args) ==
    last' = [ op |-> op, ret |-> ret, pre |-> Fields, args |-> args,
              looping |-> (op = "stop_stream" /\ handler = "loop"),
              round_trip |-> (op = "disconnect" /\ last.op = "connect" /\ last.pre = Fresh) ]

Begin(op, ret) == BeginWith(op, ret, << >>)

Call(fn, arg) == << fn, arg >>

Init ==
    /\ _user_id = -1
    /\ _connected = FALSE
    /\ _play_handle = -1
    /\ _real_play_handle = -1
    /\ _play_ctrl_port = -1
    /\ _running = FALSE
    /\ _stream_data = << >>
    /\ _current_frame = "None"
    /\ logins = {}
    /\ pv = << >>
    /\ pc = "idle"
    /\ frames_received = 0
    /\ handler = "idle"
    /\ handed = FALSE
    /\ stream_sess = -1
    /\ delivered = << >>
    /\ last = [ op |-> "__init__", ret |-> "None", pre |-> Fresh, args |-> << >>,
                looping |-> FALSE, round_trip |-> FALSE ]
    /\ calls = << >>
    /\ config_entries = {}
    /\ hass_data = {}
    /\ entities = {}
    /\ garbage = {}
    /\ host = NoCall

\* ------------------------------------------------------------------ connect

\* _set_sdk_init_cfg(): configuration calls only, no Session field is written.
set_sdk_init_cfg ==
    << Call("NET_DVR_SetSDKInitCfg", 0), Call("NET_DVR_SetConnectTime", 2000),
       Call("NET_DVR_SetReconnect", 10000) >>

\* A connect() without the test of line 239: it logs in again although the Session
\* holds a login, and overwrites _user_id with the new handle.
connect_relogin ==
    /\ pc = "idle"
    /\ _connected
    /\ _user_id' = NewLogin
    /\ logins' = logins \cup { NewLogin }
    /\ Begin("connect", "True")
    /\ calls' = set_sdk_init_cfg \o
            << Call("NET_DVR_Init", 0), Call("NET_DVR_SetLogToFile", 3),
               Call("NET_DVR_Login_V40", 0) >>
    /\ UNCHANGED << _current_frame, hostVars,
                    _connected, _play_handle, _real_play_handle, _play_ctrl_port, pv,
                    relayVars, pc, frames_received >>

\* connect(), line 239: already connected.
connect_connected ==
    /\ pc = "idle"
    /\ _connected
    /\ Begin("connect", "True")
    /\ calls' = << >>
    /\ UNCHANGED << _current_frame, hostVars,
                    fieldVars, _play_ctrl_port, nativeVars, relayVars, pc, frames_received >>

\* connect(), lines 244-250: NET_DVR_Init fails.
connect_init_failed ==
    /\ pc = "idle"
    /\ ~_connected
    /\ Begin("connect", "False")
    /\ calls' = set_sdk_init_cfg \o << Call("NET_DVR_Init", 0), Call("NET_DVR_GetLastError", 0) >>
    /\ UNCHANGED << _current_frame, hostVars,
                    fieldVars, _play_ctrl_port, nativeVars, relayVars, pc, frames_received >>

\* connect(), lines 244-272: NET_DVR_Login_V40 returns -1.
connect_login_failed ==
    /\ pc = "idle"
    /\ ~_connected
    /\ _user_id' = -1
    /\ Begin("connect", "False")
    /\ calls' = set_sdk_init_cfg \o
            << Call("NET_DVR_Init", 0), Call("NET_DVR_SetLogToFile", 3),
               Call("NET_DVR_Login_V40", 0), Call("NET_DVR_GetLastError", 0) >>
    /\ UNCHANGED << _current_frame, hostVars,
                    _connected, _play_handle, _real_play_handle, _play_ctrl_port,
                    nativeVars, relayVars, pc, frames_received >>

\* The calls of connect() up to and including test_stream()'s NET_DVR_RealPlay_V40.
connect_calls(uid) ==
    set_sdk_init_cfg \o
        << Call("NET_DVR_Init", 0), Call("NET_DVR_SetLogToFile", 3),
           Call("NET_DVR_Login_V40", 0), Call("NET_DVR_RealPlay_V40", uid) >>

\* connect(), lines 244-282 with test_stream() lines 536-546: the login succeeds,
\* test_stream()'s NET_DVR_RealPlay_V40 fails, test_stream() returns False and so
\* does connect().
connect_preview_failed ==
    /\ pc = "idle"
    /\ ~_connected
    /\ _user_id' = NewLogin
    /\ logins' = logins \cup { NewLogin }
    /\ _connected' = TRUE
    /\ _play_handle' = -1
    /\ Begin("connect", "False")
    /\ calls' = connect_calls(NewLogin) \o << Call("NET_DVR_GetLastError", 0) >>
    /\ UNCHANGED << _current_frame, hostVars,
                    _real_play_handle, _play_ctrl_port, pv, relayVars, pc, frames_received >>

\* connect(), lines 244-280 with test_stream() lines 536-553: the login and the
\* preview succeed; test_stream() enters its frame loop.
connect_test_stream ==
    /\ pc = "idle"
    /\ ~_connected
    /\ Len(pv) < MaxSessions
    /\ _user_id' = NewLogin
    /\ logins' = logins \cup { NewLogin }
    /\ _connected' = TRUE
    /\ _play_handle' = NewPreview
    /\ pv' = Opened(NewLogin, "queue")
    /\ pc' = "test_loop"
    /\ frames_received' = 0
    /\ Begin("connect", "pending")
    /\ calls' = connect_calls(NewLogin)
    /\ UNCHANGED << _current_frame, hostVars,
                    _real_play_handle, _play_ctrl_port, relayVars >>

\* test_stream(), lines 553-561: queue.get() returns a frame and it is appended to
\* the test file; after TestFrames frames the loop ends.
test_stream_frame ==
    /\ pc = "test_loop"
    /\ _stream_data # << >>
    /\ _stream_data' = Tail(_stream_data)
    /\ frames_received' = frames_received + 1
    /\ pc' = IF frames_received + 1 < TestFrames THEN "test_loop" ELSE "test_stop"
    /\ UNCHANGED << _current_frame, hostVars,
                    fieldVars, _play_ctrl_port, nativeVars, _running, handler, handed,
                    stream_sess, delivered, last, calls >>

\* test_stream(), lines 555-559 and 573-575: queue.get() returns a frame, writing the
\* test file raises; the exception is caught, test_stream() returns False without
\* stopping the preview, and connect() returns False.
test_stream_write_error ==
    /\ pc = "test_loop"
    /\ _stream_data # << >>
    /\ _stream_data' = Tail(_stream_data)
    /\ pc' = "idle"
    /\ frames_received' = 0
    /\ last' = [ last EXCEPT !.ret = "False" ]
    /\ UNCHANGED << _current_frame, hostVars,
                    fieldVars, _play_ctrl_port, nativeVars, _running, handler, handed,
                    stream_sess, delivered, calls >>

\* test_stream(), lines 562-564: queue.get(timeout=5) raises queue.Empty.
test_stream_timeout ==
    /\ pc = "test_loop"
    /\ _stream_data = << >>
    /\ pc' = "test_stop"
    /\ UNCHANGED << _current_frame, hostVars,
                    fieldVars, _play_ctrl_port, nativeVars, relayVars, frames_received,
                    last, calls >>

\* test_stream(), lines 566-571, then connect(), lines 283-285: the preview is
\* stopped, test_stream() returns True whatever it received, connect() returns True.
test_stream_stop ==
    /\ pc = "test_stop"
    /\ pv' = Stopped(pv, _play_handle)
    /\ _play_handle' = -1
    /\ pc' = "idle"
    /\ last' = [ last EXCEPT !.ret = "True" ]
    /\ frames_received' = 0
    /\ calls' = Append(calls, Call("NET_DVR_StopRealPlay", _play_handle))
    /\ UNCHANGED << _current_frame, hostVars,
                    _user_id, _connected, _real_play_handle, _play_ctrl_port, logins,
                    relayVars >>

connect ==
    \/ connect_connected
    \/ connect_init_failed
    \/ connect_login_failed
    \/ connect_preview_failed
    \/ connect_test_stream

test_stream ==
    \/ test_stream_frame
    \/ test_stream_write_error
    \/ test_stream_timeout
    \/ test_stream_stop

\* --------------------------------------------------------------- disconnect

\* A disconnect() without the test of line 293: it logs out and cleans the SDK up
\* although the Session holds no login.
disconnect_unguarded ==
    /\ pc = "idle"
    /\ ~_connected
    /\ _connected' = FALSE
    /\ _user_id' = -1
    /\ Begin("disconnect", "None")
    /\ calls' = << Call("NET_DVR_Logout", _user_id), Call("NET_DVR_Cleanup", 0) >>
    /\ UNCHANGED << _current_frame, hostVars,
                    _play_handle, _real_play_handle, _play_ctrl_port, nativeVars,
                    relayVars, pc, frames_received >>

\* disconnect(), line 293 false: nothing is done.
disconnect_not_connected ==
    /\ pc = "idle"
    /\ ~_connected
    /\ Begin("disconnect", "None")
    /\ calls' = << >>
    /\ UNCHANGED << _current_frame, hostVars,
                    fieldVars, _play_ctrl_port, nativeVars, relayVars, pc, frames_received >>

\* A disconnect() without the assignment of line 301: it logs out and clears
\* _connected but leaves the dead login handle in _user_id.
disconnect_keeps_handle ==
    /\ pc = "idle"
    /\ _connected
    /\ pv' = LoggedOut(IF _real_play_handle >= 0 THEN Stopped(pv, _real_play_handle) ELSE pv,
                        _user_id)
    /\ _real_play_handle' = IF _real_play_handle >= 0 THEN -1 ELSE _real_play_handle
    /\ logins' = logins \ { _user_id }
    /\ _connected' = FALSE
    /\ Begin("disconnect", "None")
    /\ calls' = (IF _real_play_handle >= 0
                    THEN << Call("NET_DVR_StopRealPlay", _real_play_handle) >>
                    ELSE << >>)
                \o << Call("NET_DVR_Logout", _user_id), Call("NET_DVR_Cleanup", 0) >>
    /\ UNCHANGED << _current_frame, hostVars,
                    _user_id, _play_handle, _play_ctrl_port, relayVars, pc, frames_received >>

\* disconnect(), lines 293-301: stops the preview in _real_play_handle if there is
\* one, logs out, cleans the SDK up.  _play_handle is neither read nor written.
disconnect_connected ==
    /\ pc = "idle"
    /\ _connected
    /\ pv' = LoggedOut(IF _real_play_handle >= 0 THEN Stopped(pv, _real_play_handle) ELSE pv,
                        _user_id)
    /\ _real_play_handle' = IF _real_play_handle >= 0 THEN -1 ELSE _real_play_handle
    /\ logins' = logins \ { _user_id }
    /\ _connected' = FALSE
    /\ _user_id' = -1
    /\ Begin("disconnect", "None")
    /\ calls' = (IF _real_play_handle >= 0
                    THEN << Call("NET_DVR_StopRealPlay", _real_play_handle) >>
                    ELSE << >>)
                \o << Call("NET_DVR_Logout", _user_id), Call("NET_DVR_Cleanup", 0) >>
    /\ UNCHANGED << _current_frame, hostVars,
                    _play_handle, _play_ctrl_port, relayVars, pc, frames_received >>

disconnect ==
    \/ disconnect_not_connected
    \/ disconnect_connected

\* ------------------------------------------------------------- start_stream

\* A start_stream() without the test of line 121: it asks for a preview although a
\* handle is stored, and overwrites the handle with what NET_DVR_RealPlay_V40 returns.
start_stream_unguarded ==
    /\ pc = "idle"
    /\ _play_handle >= 0
    /\ \/ /\ CanPlay(_user_id)
          /\ _play_handle' = NewPreview
          /\ pv' = Opened(_user_id, "queue")
          /\ _running' = TRUE
          /\ stream_sess' = NewPreview
          /\ delivered' = << >>
          /\ Begin("start_stream", "handler")
          /\ calls' = << Call("NET_DVR_RealPlay_V40", _user_id) >>
       \/ /\ _play_handle' = -1
          /\ Begin("start_stream", "None")
          /\ calls' = << Call("NET_DVR_RealPlay_V40", _user_id),
                         Call("NET_DVR_GetLastError", 0) >>
          /\ UNCHANGED << _current_frame, hostVars,
                          pv, _running, stream_sess, delivered >>
    /\ handed' = TRUE
    /\ UNCHANGED << _current_frame, hostVars,
                    _user_id, _connected, _real_play_handle, _play_ctrl_port, logins,
                    _stream_data, handler, pc, frames_received >>

\* start_stream(), lines 121-122: a preview handle is already stored.
start_stream_active ==
    /\ pc = "idle"
    /\ _play_handle >= 0
    /\ handed' = TRUE
    /\ Begin("start_stream", "handler")
    /\ calls' = << >>
    /\ UNCHANGED << _current_frame, hostVars,
                    fieldVars, _play_ctrl_port, nativeVars, _running, _stream_data,
                    handler, stream_sess, delivered, pc, frames_received >>

\* start_stream(), lines 124-146: NET_DVR_RealPlay_V40 is called with self._user_id,
\* whatever its value, and succeeds.
start_stream_open ==
    /\ pc = "idle"
    /\ _play_handle < 0
    /\ CanPlay(_user_id)
    /\ _play_handle' = NewPreview
    /\ pv' = Opened(_user_id, "queue")
    /\ _running' = TRUE
    /\ handed' = TRUE
    /\ stream_sess' = NewPreview
    /\ delivered' = << >>
    /\ Begin("start_stream", "handler")
    /\ calls' = << Call("NET_DVR_RealPlay_V40", _user_id) >>
    /\ UNCHANGED << _current_frame, hostVars,
                    _user_id, _connected, _real_play_handle, _play_ctrl_port, logins,
                    _stream_data, handler, pc, frames_received >>

\* start_stream(), lines 124-143 and 148-150: NET_DVR_RealPlay_V40 returns -1, the
\* exception raised for it is caught and None is returned.
start_stream_failed ==
    /\ pc = "idle"
    /\ _play_handle < 0
    /\ _play_handle' = -1
    /\ Begin("start_stream", "None")
    /\ calls' = << Call("NET_DVR_RealPlay_V40", _user_id), Call("NET_DVR_GetLastError", 0) >>
    /\ UNCHANGED << _current_frame, hostVars,
                    _user_id, _connected, _real_play_handle, _play_ctrl_port, nativeVars,
                    relayVars, pc, frames_received >>

start_stream ==
    \/ start_stream_active
    \/ start_stream_open
    \/ start_stream_failed

\* -------------------------------------------------------------- stop_stream

\* A stop_stream() without the test of line 155: it asks the SDK to stop the preview
\* named by _real_play_handle even when that field is -1.
stop_stream_unguarded ==
    /\ pc = "idle"
    /\ pv' = IF _real_play_handle >= 0 THEN Stopped(pv, _real_play_handle) ELSE pv
    /\ _real_play_handle' = -1
    /\ _play_ctrl_port' = -1
    /\ _current_frame' = "None"
    /\ Begin("stop_stream", "None")
    /\ calls' = << Call("NET_DVR_StopRealPlay", _real_play_handle) >>
    /\ UNCHANGED << hostVars,
                    _user_id, _connected, _play_handle, logins, relayVars, pc,
                    frames_received >>

\* stop_stream(), lines 154-167.  _play_ctrl_port is -1 from construction and is
\* assigned nowhere else, so the decoder branch releases nothing.
stop_stream ==
    /\ pc = "idle"
    /\ pv' = IF _real_play_handle >= 0 THEN Stopped(pv, _real_play_handle) ELSE pv
    /\ _real_play_handle' = IF _real_play_handle >= 0 THEN -1 ELSE _real_play_handle
    /\ _play_ctrl_port' = IF _play_ctrl_port > -1 THEN -1 ELSE _play_ctrl_port
    /\ Begin("stop_stream", "None")
    /\ calls' = (IF _real_play_handle >= 0
                    THEN << Call("NET_DVR_StopRealPlay", _real_play_handle) >>
                    ELSE << >>)
                \o (IF _play_ctrl_port > -1
                    THEN << Call("PlayM4_Stop", _play_ctrl_port),
                            Call("PlayM4_CloseStream", _play_ctrl_port),
                            Call("PlayM4_FreePort", _play_ctrl_port) >>
                    ELSE << >>)
    /\ _current_frame' = "None"
    /\ UNCHANGED << hostVars,
                    _user_id, _connected, _play_handle, logins, relayVars, pc,
                    frames_received >>

\* ------------------------------------------------------------- get_snapshot

\* get_snapshot(), lines 312-313.
get_snapshot_not_connected ==
    /\ pc = "idle"
    /\ ~_connected
    /\ Begin("get_snapshot", "None")
    /\ calls' = << >>
    /\ UNCHANGED << _current_frame, hostVars,
                    fieldVars, _play_ctrl_port, nativeVars, relayVars, pc, frames_received >>

\* get_snapshot(), lines 324-334: NET_DVR_RealPlay_V40 returns -1.
get_snapshot_preview_failed ==
    /\ pc = "idle"
    /\ _connected
    /\ _real_play_handle' = -1
    /\ Begin("get_snapshot", "None")
    /\ calls' = << Call("NET_DVR_RealPlay_V40", _user_id), Call("NET_DVR_GetLastError", 0) >>
    /\ UNCHANGED << _current_frame, hostVars,
                    _user_id, _connected, _play_handle, _play_ctrl_port, nativeVars,
                    relayVars, pc, frames_received >>

\* get_snapshot(), lines 324-345: the preview opens, NET_DVR_CaptureJPEGPicture_NEW
\* fails, None is returned with the preview left open.
get_snapshot_capture_failed ==
    /\ pc = "idle"
    /\ _connected
    /\ CanPlay(_user_id)
    /\ _real_play_handle' = NewPreview
    /\ pv' = Opened(_user_id, "v30")
    /\ Begin("get_snapshot", "None")
    /\ calls' = << Call("NET_DVR_RealPlay_V40", _user_id),
                   Call("NET_DVR_CaptureJPEGPicture_NEW", _user_id),
                   Call("NET_DVR_GetLastError", 0) >>
    /\ UNCHANGED << _current_frame, hostVars,
                    _user_id, _connected, _play_handle, _play_ctrl_port, logins,
                    relayVars, pc, frames_received >>

\* get_snapshot(), lines 324-354: the preview opens, the capture succeeds, the preview
\* is stopped.  Line 351 reads .value of the object byref() returned, which has no
\* such attribute: the AttributeError is caught at line 352 and None is returned.
get_snapshot_captured ==
    /\ pc = "idle"
    /\ _connected
    /\ CanPlay(_user_id)
    /\ _real_play_handle' = -1
    /\ pv' = Stopped(Opened(_user_id, "v30"), NewPreview)
    /\ Begin("get_snapshot", "None")
    /\ calls' = << Call("NET_DVR_RealPlay_V40", _user_id),
                   Call("NET_DVR_CaptureJPEGPicture_NEW", _user_id),
                   Call("NET_DVR_StopRealPlay", NewPreview) >>
    /\ UNCHANGED << _current_frame, hostVars,
                    _user_id, _connected, _play_handle, _play_ctrl_port, logins,
                    relayVars, pc, frames_received >>

get_snapshot ==
    \/ get_snapshot_not_connected
    \/ get_snapshot_preview_failed
    \/ get_snapshot_capture_failed
    \/ get_snapshot_captured

\* ----------------------------------------------------------- get_stream_url

\* get_stream_url(), lines 305-306.
get_stream_url_not_connected ==
    /\ pc = "idle"
    /\ ~_connected
    /\ Begin("get_stream_url", "None")
    /\ calls' = << >>
    /\ UNCHANGED << _current_frame, hostVars,
                    fieldVars, _play_ctrl_port, nativeVars, relayVars, pc, frames_received >>

\* get_stream_url(), line 308: the rtsp URL is put together from the constructor's
\* arguments; the SDK is not asked.
get_stream_url_connected ==
    /\ pc = "idle"
    /\ _connected
    /\ Begin("get_stream_url", "url")
    /\ calls' = << >>
    /\ UNCHANGED << _current_frame, hostVars,
                    fieldVars, _play_ctrl_port, nativeVars, relayVars, pc, frames_received >>

get_stream_url ==
    \/ get_stream_url_not_connected
    \/ get_stream_url_connected

\* ----------------------------------------------------------------- pan_tilt

\* The values of pan and of tilt that the code tells apart: below, at and above 0.
Axis == { -1, 0, 1 }

\* A pan_tilt() without the test of line 358: the two commands are sent with
\* whatever _user_id holds.
pan_tilt_unguarded(pan, tilt) ==
    /\ pc = "idle"
    /\ ~_connected
    /\ BeginWith("pan_tilt", "True", << pan, tilt >>)
    /\ calls' = << Call("NET_DVR_PTZControl", IF pan > 0 THEN 21 ELSE 22),
                   Call("NET_DVR_PTZControl", IF tilt > 0 THEN 23 ELSE 24) >>
    /\ UNCHANGED << _current_frame, hostVars,
                    fieldVars, _play_ctrl_port, nativeVars, relayVars, pc, frames_received >>

\* pan_tilt(), lines 358-359.
pan_tilt_not_connected(pan, tilt) ==
    /\ pc = "idle"
    /\ ~_connected
    /\ BeginWith("pan_tilt", "False", << pan, tilt >>)
    /\ calls' = << >>
    /\ UNCHANGED << _current_frame, hostVars,
                    fieldVars, _play_ctrl_port, nativeVars, relayVars, pc, frames_received >>

\* pan_tilt(), lines 361-366: command 21 or 22 is sent for pan, then 23 or 24 for
\* tilt; neither value is compared with 0 in any other way, and what
\* NET_DVR_PTZControl returns is not looked at.
pan_tilt_connected(pan, tilt) ==
    /\ pc = "idle"
    /\ _connected
    /\ BeginWith("pan_tilt", "True", << pan, tilt >>)
    /\ calls' = << Call("NET_DVR_PTZControl", IF pan > 0 THEN 21 ELSE 22),
                   Call("NET_DVR_PTZControl", IF tilt > 0 THEN 23 ELSE 24) >>
    /\ UNCHANGED << _current_frame, hostVars,
                    fieldVars, _play_ctrl_port, nativeVars, relayVars, pc, frames_received >>

pan_tilt ==
    \E pan \in Axis, tilt \in Axis :
        \/ pan_tilt_not_connected(pan, tilt)
        \/ pan_tilt_connected(pan, tilt)

\* ---------------------------------------------------------- test_connection

\* The ways through test_connection(), lines 399-448:
\*   "init_failed"   NET_DVR_Init returns false (406-409);
\*   "unreachable"   check_device_accessible() returns False (411-413);
\*   "login_failed"  NET_DVR_Login_V30 returns a negative handle (433-437);
\*   "ok"            the login is accepted (440-443);
\*   "raised"        NET_DVR_Login_V30 raises, the handler of line 445 is entered.
TestConnectionPaths == { "init_failed", "unreachable", "login_failed", "ok", "raised" }

\* What test_connection() hands to its caller.  In the handler, line 446 calls
\* ex.with_traceback() without the traceback argument the method requires: the call
\* raises TypeError inside the except block, lines 447-448 are not reached and the
\* TypeError leaves test_connection().
test_connection_returns(path) ==
    CASE path = "init_failed" -> "False"
      [] path = "unreachable" -> "False"
      [] path = "login_failed" -> "False"
      [] path = "ok" -> "True"
      [] path = "raised" -> "raise"

\* The native calls test_connection() issues on each way; uid is the handle
\* NET_DVR_Login_V30 returns when the login is accepted.
test_connection_calls(path, uid) ==
    set_sdk_init_cfg \o
    CASE path = "init_failed" ->
            << Call("NET_DVR_Init", 0), Call("NET_DVR_GetLastError", 0) >>
      [] path = "unreachable" ->
            << Call("NET_DVR_Init", 0) >>
      [] path = "login_failed" ->
            << Call("NET_DVR_Init", 0), Call("NET_DVR_SetLogToFile", 3),
               Call("NET_DVR_Login_V30", 0), Call("NET_DVR_GetLastError", 0),
               Call("NET_DVR_GetErrorMsg", 0) >>
      [] path = "ok" ->
            << Call("NET_DVR_Init", 0), Call("NET_DVR_SetLogToFile", 3),
               Call("NET_DVR_Login_V30", 0), Call("NET_DVR_Logout", uid),
               Call("NET_DVR_Cleanup", 0) >>
      [] path = "raised" ->
            << Call("NET_DVR_Init", 0), Call("NET_DVR_SetLogToFile", 3),
               Call("NET_DVR_Login_V30", 0) >>

\* test_connection(), lines 403-409: NET_DVR_Init fails.
test_connection_init_failed ==
    /\ pc = "idle"
    /\ Begin("test_connection", test_connection_returns("init_failed"))
    /\ calls' = test_connection_calls("init_failed", NewLogin)
    /\ UNCHANGED << _current_frame, hostVars,
                    fieldVars, _play_ctrl_port, nativeVars, relayVars, pc, frames_received >>

\* test_connection(), lines 403-413: check_device_accessible() returns False.
test_connection_unreachable ==
    /\ pc = "idle"
    /\ Begin("test_connection", test_connection_returns("unreachable"))
    /\ calls' = test_connection_calls("unreachable", NewLogin)
    /\ UNCHANGED << _current_frame, hostVars,
                    fieldVars, _play_ctrl_port, nativeVars, relayVars, pc, frames_received >>

\* test_connection(), lines 403-437: NET_DVR_Login_V30 returns -1 into the local
\* user_id.
test_connection_login_failed ==
    /\ pc = "idle"
    /\ Begin("test_connection", test_connection_returns("login_failed"))
    /\ calls' = test_connection_calls("login_failed", NewLogin)
    /\ UNCHANGED << _current_frame, hostVars,
                    fieldVars, _play_ctrl_port, nativeVars, relayVars, pc, frames_received >>

\* A test_connection() that keeps the handle it logged in with in self._user_id.
test_connection_stores_handle ==
    /\ pc = "idle"
    /\ _user_id' = NewLogin
    /\ Begin("test_connection", "True")
    /\ calls' = test_connection_calls("ok", NewLogin)
    /\ UNCHANGED << _current_frame, hostVars,
                    _connected, _play_handle, _real_play_handle, _play_ctrl_port,
                    nativeVars, relayVars, pc, frames_received >>

\* test_connection(), lines 403-443: NET_DVR_Login_V30 returns a handle into the
\* local user_id, which is logged out again; the SDK is cleaned up.
test_connection_ok ==
    /\ pc = "idle"
    /\ Begin("test_connection", test_connection_returns("ok"))
    /\ calls' = test_connection_calls("ok", NewLogin)
    /\ UNCHANGED << _current_frame, hostVars,
                    fieldVars, _play_ctrl_port, nativeVars, relayVars, pc, frames_received >>

\* test_connection(), lines 403-431 and 445-446: a native call raises; the handler
\* raises in its turn and the exception reaches the caller.  No field was written.
test_connection_raised ==
    /\ pc = "idle"
    /\ Begin("test_connection", test_connection_returns("raised"))
    /\ calls' = test_connection_calls("raised", NewLogin)
    /\ UNCHANGED << _current_frame, hostVars,
                    fieldVars, _play_ctrl_port, nativeVars, relayVars, pc, frames_received >>

test_connection ==
    \/ test_connection_init_failed
    \/ test_connection_unreachable
    \/ test_connection_login_failed
    \/ test_connection_ok
    \/ test_connection_raised

\* --------------------------------------------------------- native callbacks

\* real_data_callback(), lines 450-467: the queue after a buffer of type dwDataType.
real_data_callback(q, dwDataType, data) ==
    IF dwDataType = 1 THEN Append(q, data)
    ELSE IF dwDataType = 2 THEN Append(q, data)
    ELSE q

\* The buffer the native layer delivers next on preview h: the system header (type 1)
\* first, then payload (type 2) numbered in delivery order.
NextBuffer(h) ==
    [ sess |-> h, type |-> IF pv[h + 1].sent = 0 THEN 1 ELSE 2, n |-> pv[h + 1].sent ]

\* The native thread calls real_data_callback for a preview opened by start_stream()
\* or test_stream().
native_real_data ==
    \E h \in Delivering :
        /\ pv[h + 1].cb = "queue"
        /\ pv[h + 1].sent < MaxBuffers
        /\ _stream_data' = real_data_callback(_stream_data, NextBuffer(h).type, NextBuffer(h))
        /\ pv' = [ pv EXCEPT ![h + 1].sent = @ + 1 ]
        /\ UNCHANGED << _current_frame, hostVars,
                        fieldVars, _play_ctrl_port, logins, _running, handler, handed,
                        stream_sess, delivered, pc, frames_received, last, calls >>

\* The native thread calls _real_data_callback_v30 (lines 85-117) for a preview
\* opened by get_snapshot(): the buffer goes to the decoder library, the queue and
\* the Session fields are not written.
native_real_data_v30 ==
    \E h \in Delivering :
        /\ pv[h + 1].cb = "v30"
        /\ UNCHANGED vars

\* The decoder library calls _decode_callback (lines 70-83) on its own thread with a
\* decoded video frame (nType 3) of a stream _real_data_callback_v30 opened for it:
\* the frame is assigned to self._current_frame.  _stream_callback is None, nothing
\* is scheduled.
decode_callback ==
    \E h \in Delivering :
        /\ pv[h + 1].cb = "v30"
        /\ _current_frame' = "frame"
        /\ UNCHANGED << hostVars, fieldVars, _play_ctrl_port, nativeVars, relayVars, pc,
                        frames_received, last, calls >>

\* ------------------------------------------------------ _handle_mjpeg_stream

\* A request reaches the handler start_stream() returned, lines 471-476.
handle_mjpeg_request ==
    /\ pc = "idle"
    /\ handed
    /\ handler = "idle"
    /\ handler' = "loop"
    /\ UNCHANGED << _current_frame, hostVars,
                    fieldVars, _play_ctrl_port, nativeVars, _running, _stream_data,
                    handed, stream_sess, delivered, pc, frames_received, last, calls >>

\* _handle_mjpeg_stream(), lines 477 and 498-502: the guard is false, the loop ends.
handle_mjpeg_exit ==
    /\ pc = "idle"
    /\ handler = "loop"
    /\ ~_running
    /\ _running' = FALSE
    /\ handler' = "idle"
    /\ UNCHANGED << _current_frame, hostVars,
                    fieldVars, _play_ctrl_port, nativeVars, _stream_data, handed,
                    stream_sess, delivered, pc, frames_received, last, calls >>

\* _handle_mjpeg_stream(), lines 477-489: a frame is taken and written to the client.
handle_mjpeg_frame ==
    /\ pc = "idle"
    /\ handler = "loop"
    /\ _running
    /\ _stream_data # << >>
    /\ _stream_data' = Tail(_stream_data)
    /\ delivered' = Append(delivered, Head(_stream_data))
    /\ UNCHANGED << _current_frame, hostVars,
                    fieldVars, _play_ctrl_port, nativeVars, _running, handler, handed,
                    stream_sess, pc, frames_received, last, calls >>

\* _handle_mjpeg_stream(), lines 477-502: a frame is taken, writing it raises (the
\* client went away); the loop ends and the finally block clears _running.
handle_mjpeg_write_error ==
    /\ pc = "idle"
    /\ handler = "loop"
    /\ _running
    /\ _stream_data # << >>
    /\ _stream_data' = Tail(_stream_data)
    /\ delivered' = Append(delivered, Head(_stream_data))
    /\ _running' = FALSE
    /\ handler' = "idle"
    /\ UNCHANGED << _current_frame, hostVars,
                    fieldVars, _play_ctrl_port, nativeVars, handed, stream_sess,
                    pc, frames_received, last, calls >>

\* _handle_mjpeg_stream(), lines 490-493: the queue is empty, the loop sleeps 0.1 s
\* and tests its guard again.
handle_mjpeg_empty ==
    /\ pc = "idle"
    /\ handler = "loop"
    /\ _running
    /\ _stream_data = << >>
    /\ UNCHANGED vars

handle_mjpeg_stream ==
    \/ handle_mjpeg_request
    \/ handle_mjpeg_exit
    \/ handle_mjpeg_frame
    \/ handle_mjpeg_write_error
    \/ handle_mjpeg_empty

\* ------------------------------------------------- async_camera_image

\* The adapter's async_camera_image(), lines 504-519: get_nowait() finds a buffer,
\* which is taken from the queue and returned.
api_camera_image_frame ==
    /\ pc = "idle"
    /\ _stream_data # << >>
    /\ _stream_data' = Tail(_stream_data)
    /\ Begin("async_camera_image", "frame")
    /\ calls' = << >>
    /\ UNCHANGED << _current_frame, hostVars, fieldVars, _play_ctrl_port, nativeVars,
                    _running, handler, handed, stream_sess, delivered, pc,
                    frames_received >>

\* The adapter's async_camera_image(), lines 504-519: the queue stays empty for the
\* five seconds of the loop, None is returned.
api_camera_image_timeout ==
    /\ pc = "idle"
    /\ _stream_data = << >>
    /\ Begin("async_camera_image", "None")
    /\ calls' = << >>
    /\ UNCHANGED << _current_frame, hostVars, fieldVars, _play_ctrl_port, nativeVars,
                    relayVars, pc, frames_received >>

api_camera_image ==
    \/ api_camera_image_frame
    \/ api_camera_image_timeout

\* ------------------------------------------------- the host application
\* The config flow (config_flow.py), the entry set-up and unload (__init__.py) and
\* the camera entity (camera.py) each work on an adapter object of their own.  Here
\* an adapter is followed through the fields the host's calls depend on; connect()
\* and test_connection() appear through the ways they can end.

\* The variables of the one adapter followed in detail above.
adapterVars == << fieldVars, _play_ctrl_port, _running, _stream_data, _current_frame,
                  pv, pc, frames_received, handler, handed, stream_sess, delivered,
                  last >>

\* The ways through connect() on an adapter just constructed, lines 237-289:
\*   "raised"          a call before the login raises, handler of line 287;
\*   "init_failed"     NET_DVR_Init returns false (244-250);
\*   "login_failed"    NET_DVR_Login_V40 returns a negative handle (268-272);
\*   "preview_failed"  test_stream()'s NET_DVR_RealPlay_V40 fails (280-282, 543-546);
\*   "write_error"     test_stream() raises in its loop and returns False (573-575);
\*   "ok"              test_stream() returns True (283-285).
ConnectPaths ==
    { "raised", "init_failed", "login_failed", "preview_failed", "write_error", "ok" }

\* What connect() returns: it catches every exception itself.
connect_returns(path) == IF path = "ok" THEN "True" ELSE "False"

\* connect() got past line 274: _connected is True and _user_id holds the login.
connect_logs_in(path) == path \in { "preview_failed", "write_error", "ok" }

\* The native calls of connect() on each way; uid is the login handle.
connect_native(path, uid) ==
    CASE path = "raised" -> << >>
      [] path = "init_failed" ->
            set_sdk_init_cfg \o << Call("NET_DVR_Init", 0), Call("NET_DVR_GetLastError", 0) >>
      [] path = "login_failed" ->
            set_sdk_init_cfg \o
            << Call("NET_DVR_Init", 0), Call("NET_DVR_SetLogToFile", 3),
               Call("NET_DVR_Login_V40", 0), Call("NET_DVR_GetLastError", 0) >>
      [] path = "preview_failed" ->
            connect_calls(uid) \o << Call("NET_DVR_GetLastError", 0) >>
      [] path = "write_error" -> connect_calls(uid)
      [] path = "ok" -> connect_calls(uid) \o << Call("NET_DVR_StopRealPlay", 0) >>

\* config_flow.py, lines 39-52, with the errors lines 49 and 52 swapped.
step_user_errors_swapped(tc) ==
    IF tc = "True" THEN "none"
    ELSE IF tc = "False" THEN "unknown"
    ELSE "cannot_connect"

\* config_flow.py, lines 39-52: errors["base"] after the executor job with
\* test_connection() came back with tc; "none" when the entry is created.
step_user_errors(tc) ==
    IF tc = "True" THEN "none"
    ELSE IF tc = "False" THEN "cannot_connect"
    ELSE "unknown"

\* async_step_user(None), config_flow.py lines 26-28 and 55-66: the empty form.
async_step_user_form ==
    /\ HostCall("async_step_user", 0, "no_input", "form", "none", -1)
    /\ calls' = << >>
    /\ UNCHANGED << adapterVars, logins, config_entries, hass_data, entities, garbage >>

\* async_step_user(user_input) for a host h that has no entry yet, config_flow.py
\* lines 28-66.  "load_failed": the constructor of the adapter raises (hikvision_api.py
\* lines 58-64), inside the try of line 29.
async_step_user(h, path) ==
    LET tc == IF path = "load_failed" THEN "raise" ELSE test_connection_returns(path)
        errors == step_user_errors(tc)
    IN  /\ h \notin config_entries
        /\ HostCall("async_step_user", h, path,
                    IF errors = "none" THEN "create_entry" ELSE "form", errors, -1)
        /\ config_entries' = IF errors = "none" THEN config_entries \cup { h }
                                                ELSE config_entries
        /\ calls' = IF path = "load_failed" THEN << >>
                                            ELSE test_connection_calls(path, NewLogin)
        /\ UNCHANGED << adapterVars, logins, hass_data, entities, garbage >>

\* __init__.py, lines 90-101, without the tests on connect(): the adapter is stored
\* and the platform forwarded whatever connect() did.
async_setup_entry_unchecked(e, path) ==
    /\ e \in config_entries
    /\ ~Stored(e)
    /\ path # "load_failed"
    /\ connect_logs_in(path) => Cardinality(logins) < MaxLogins
    /\ HostCall("async_setup_entry", e, path, "True", "none", -1)
    /\ hass_data' = hass_data \cup
                        { IF connect_logs_in(path) THEN Api(e, NewLogin, TRUE, -1)
                                                   ELSE Api(e, -1, FALSE, -1) }
    /\ entities' = entities \cup { Entity(e, "None") }
    /\ logins' = IF connect_logs_in(path) THEN logins \cup { NewLogin } ELSE logins
    /\ calls' = connect_native(path, NewLogin)
    /\ UNCHANGED << adapterVars, config_entries, garbage >>

\* async_setup_entry(hass, entry), __init__.py lines 79-101.  The adapter is
\* constructed outside the try (83-88): "load_failed" leaves the function as an
\* exception.  connect() False (91-92) or raising (93-95): False is returned and the
\* adapter, referred to by nothing any more, waits for its finaliser if it logged
\* in.  Otherwise the adapter is stored (97) and the camera platform set up (99),
\* which creates the entity (camera.py lines 29-30, 69).
async_setup_entry(e, path) ==
    LET c == IF path = "load_failed" THEN "none" ELSE connect_returns(path)
        ret == IF path = "load_failed" THEN "raise"
               ELSE IF c = "False" \/ c = "raise" THEN "False"
               ELSE "True"
        logged == path # "load_failed" /\ connect_logs_in(path)
    IN  /\ e \in config_entries
        /\ ~Stored(e)
        /\ logged => Cardinality(logins) < MaxLogins
        /\ HostCall("async_setup_entry", e, path, ret, "none", -1)
        /\ hass_data' = IF ret = "True" THEN hass_data \cup { Api(e, NewLogin, TRUE, -1) }
                                        ELSE hass_data
        /\ entities' = IF ret = "True" THEN entities \cup { Entity(e, "None") }
                                       ELSE entities
        /\ garbage' = IF ret # "True" /\ logged THEN garbage \cup { NewLogin } ELSE garbage
        /\ logins' = IF logged THEN logins \cup { NewLogin } ELSE logins
        /\ calls' = IF path = "load_failed" THEN << >> ELSE connect_native(path, NewLogin)
        /\ UNCHANGED << adapterVars, config_entries >>

\* async_unload_entry(hass, entry), __init__.py lines 103-109.  unload_ok is what
\* async_unload_platforms returned; when true the entity is gone, the adapter is
\* taken out of hass.data and disconnect() (hikvision_api.py lines 291-301) logs it
\* out and cleans the SDK up.
async_unload_entry(e, unload_ok) ==
    LET api == ApiOf(e)
    IN  /\ Stored(e)
        /\ HostCall("async_unload_entry", e,
                    IF unload_ok THEN "unload_ok" ELSE "unload_failed",
                    IF unload_ok THEN "True" ELSE "False", "none", -1)
        /\ hass_data' = IF unload_ok THEN hass_data \ { api } ELSE hass_data
        /\ entities' = IF unload_ok THEN { c \in entities : c.entry # e } ELSE entities
        /\ logins' = IF unload_ok /\ api._connected THEN logins \ { api._user_id } ELSE logins
        /\ calls' = IF unload_ok /\ api._connected
                        THEN << Call("NET_DVR_Logout", api._user_id),
                                Call("NET_DVR_Cleanup", 0) >>
                        ELSE << >>
        /\ UNCHANGED << adapterVars, config_entries, garbage >>

\* def start_stream(self), hikvision_api.py line 119: the parameters after self.
start_stream_params == 0

\* camera.py lines 87-91: run_in_executor(None, self._api.start_stream,
\* stream_callback) calls start_stream with one positional argument.
stream_source_args == 1

\* A Python call binds its positional arguments to the parameters one to one; with
\* too many or too few (no defaults here) it raises TypeError and the body of the
\* function does not run.
Binds(params, args) == params = args

\* The entity's async_camera_image(), camera.py lines 95-111.  Without a stream
\* object (100) it awaits _get_stream_source() (78-93): if the call of start_stream
\* binds, its body runs (hikvision_api.py 119-146: a preview is asked for unless
\* _play_handle holds one) and the stream object is created (102-107); if it does
\* not, the TypeError is caught at line 109, None is returned and _stream stays
\* None.  With a stream object the image is asked of it (108).
async_camera_image(e) ==
    LET api == ApiOf(e)
        cam == EntityOf(e)
        bound == Binds(start_stream_params, stream_source_args)
        starts == cam._stream = "None" /\ bound
    IN  /\ HasEntity(e)
        /\ HostCall("async_camera_image", e,
                    IF cam._stream # "None" THEN "reused"
                    ELSE IF bound THEN "created" ELSE "type_error",
                    IF cam._stream # "None" \/ bound THEN "image" ELSE "None",
                    "none", -1)
        /\ entities' = IF starts THEN (entities \ { cam }) \cup { Entity(e, "stream") }
                                  ELSE entities
        /\ hass_data' = IF starts /\ api._play_handle < 0
                            THEN (hass_data \ { api })
                                    \cup { Api(e, api._user_id, api._connected, 0) }
                            ELSE hass_data
        /\ calls' = IF starts /\ api._play_handle < 0
                        THEN << Call("NET_DVR_RealPlay_V40", api._user_id) >>
                        ELSE << >>
        /\ UNCHANGED << adapterVars, logins, config_entries, garbage >>

\* __del__ of an adapter nothing refers to that is still marked connected,
\* hikvision_api.py lines 371-375, run by the collector at a time of its own: the
\* login is logged out and the SDK cleaned up.
api_del(uid) ==
    /\ uid \in garbage
    /\ HostCall("__del__", 0, "finalised", "None", "none", uid)
    /\ garbage' = garbage \ { uid }
    /\ logins' = logins \ { uid }
    /\ calls' = << Call("NET_DVR_Logout", uid), Call("NET_DVR_Cleanup", 0) >>
    /\ UNCHANGED << adapterVars, config_entries, hass_data, entities >>

Next ==
    \/ connect
    \/ test_stream
    \/ disconnect
    \/ start_stream
    \/ stop_stream
    \/ get_snapshot
    \/ test_connection
    \/ native_real_data
    \/ native_real_data_v30
    \/ decode_callback
    \/ handle_mjpeg_stream

Spec == Init /\ [][Next]_vars

\* The adapter with every consumer of its queue at work: the MJPEG handler and
\* test_stream() as in Spec, and async_camera_image() beside them.
RelayNext ==
    \/ Next
    \/ api_camera_image

RelaySpec == Init /\ [][RelayNext]_vars

\* The operations of a Session that log in and out and open and close previews,
\* with get_stream_url() and pan_tilt() beside them. The request handler and the
\* decoder's callback touch neither _connected nor a handle and are left out;
\* native_real_data stays, for connect()'s stream test waits for it.
ControlNext ==
    \/ connect
    \/ test_stream
    \/ native_real_data
    \/ disconnect
    \/ start_stream
    \/ stop_stream
    \/ get_snapshot
    \/ test_connection
    \/ get_stream_url
    \/ pan_tilt

ControlSpec == Init /\ [][ControlNext]_vars

\* The host application at work: the user goes through the config flow, entries
\* are set up and unloaded, images are asked of the entities, dropped adapters are
\* finalised.
HostNext ==
    \/ async_step_user_form
    \/ \E h \in Entries, path \in { "load_failed" } \cup TestConnectionPaths :
            async_step_user(h, path)
    \/ \E e \in Entries, path \in { "load_failed" } \cup ConnectPaths :
            async_setup_entry(e, path)
    \/ \E e \in Entries, unload_ok \in BOOLEAN : async_unload_entry(e, unload_ok)
    \/ \E e \in Entries : async_camera_image(e)
    \/ \E uid \in garbage : api_del(uid)

HostSpec == Init /\ [][HostNext]_vars

\* The event loop runs a coroutine that is ready, and the thread blocked in
\* test_stream() goes on when queue.get() returns or times out.  Nothing obliges the
\* camera to send, a client to ask or to go away, or the host to call an operation.
FairSpec ==
    /\ Spec
    /\ WF_vars(handle_mjpeg_exit)
    /\ WF_vars(handle_mjpeg_frame \/ handle_mjpeg_write_error)
    /\ WF_vars(test_stream)

\* ------------------------------------------------------------------ claims

Range(q) == { q[i] : i \in DOMAIN q }

Issued(fn) == { c \in Range(calls) : c[1] = fn }

PreUserId == last.pre[1]
PreConnected == last.pre[2]
PrePlayHandle == last.pre[3]
PreRealPlayHandle == last.pre[4]

\* C1: for a Session in its constructed (Disconnected) state, connect() followed
\* immediately by disconnect() leaves _user_id = -1, connected = false,
\* _play_handle = -1 and _real_play_handle = -1, whatever the login and the stream
\* test inside connect() did.
C1_ConnectDisconnectRoundTrip ==
    (last.op = "disconnect" /\ last.round_trip) => Fields = Fresh

\* C2: test_connection() leaves _user_id, _connected, _play_handle and
\* _real_play_handle as they were before the call, on every path.
C2_TestConnectionKeepsFields ==
    last.op = "test_connection" => Fields = last.pre

\* C2 witness: a test_connection() whose login was accepted has returned on a
\* Session that never logged in, and _user_id is still -1.
C2_Witness ==
    /\ last.op = "test_connection"
    /\ last.ret = "True"
    /\ Issued("NET_DVR_Logout") # {}
    /\ last.pre = Fresh
    /\ _user_id = -1

\* C3: stop_stream() called on a Session whose stored stream handle is the preview
\* a successful start_stream() opened issues NET_DVR_StopRealPlay for that handle
\* and resets the stored handle to -1.
C3_StopStreamEndsStreaming ==
    (last.op = "stop_stream" /\ PrePlayHandle >= 0 /\ PrePlayHandle = stream_sess)
        => /\ _play_handle = -1
           /\ Call("NET_DVR_StopRealPlay", PrePlayHandle) \in Range(calls)

\* C4: after disconnect() on a connected Session, connected = false, _user_id = -1
\* and no preview handle is left that was opened and not stopped.
C4_DisconnectReleasesStreams ==
    (last.op = "disconnect" /\ PreConnected)
        => /\ ~_connected
           /\ _user_id = -1
           /\ LivePreviews = {}

\* C5: what the handler takes from the queue in a streaming session started by
\* start_stream() begins with that session's system header, holds no second header,
\* and holds that session's payload buffers in the order they were delivered.
C5_HeaderFirstInOrder ==
    delivered # << >> =>
        /\ delivered[1] = [ sess |-> stream_sess, type |-> 1, n |-> 0 ]
        /\ \A i \in 2 .. Len(delivered) :
              /\ delivered[i].type = 2
              /\ delivered[i].sess = stream_sess
              /\ delivered[i].n > delivered[i - 1].n

\* C6: when stop_stream() has been called while the MJPEG handler loop was running,
\* the loop eventually exits.
C6_StopStreamEndsHandler ==
    (last.op = "stop_stream" /\ last.looping) ~> (handler = "idle")

\* C7: start_stream() called while a stream handle is stored issues no
\* NET_DVR_RealPlay_V40, leaves _play_handle unchanged and returns the handler.
C7_StartStreamTwiceKeepsHandle ==
    (last.op = "start_stream" /\ PrePlayHandle >= 0)
        => /\ _play_handle = PrePlayHandle
           /\ Issued("NET_DVR_RealPlay_V40") = {}
           /\ last.ret = "handler"

\* C7 witness: start_stream() has been called again on the preview an earlier
\* start_stream() opened, which is still open.
C7_Witness ==
    /\ last.op = "start_stream"
    /\ PrePlayHandle >= 0
    /\ PrePlayHandle = stream_sess
    /\ stream_sess \in Delivering
    /\ calls = << >>

\* C8: at most one login handle and at most one preview handle are live at any time.
C8_AtMostOneHandle ==
    /\ Cardinality(logins) <= 1
    /\ Cardinality(LivePreviews) <= 1

\* C9: start_stream() never calls NET_DVR_RealPlay_V40 with a negative login handle,
\* and a stored stream handle (_play_handle >= 0 or _real_play_handle >= 0) implies
\* connected = true.
C9_StreamOnlyWhenConnected ==
    /\ last.op = "start_stream" => \A c \in Issued("NET_DVR_RealPlay_V40") : c[2] >= 0
    /\ (_play_handle >= 0 \/ _real_play_handle >= 0) => _connected

\* C10: when connect() has returned False, connected = false and the login handle is
\* negative.
C10_ConnectFailureIsDisconnected ==
    (last.op = "connect" /\ last.ret = "False") => (~_connected /\ _user_id < 0)

\* C11: a stop_stream() called while _real_play_handle holds no preview (so before
\* any start_stream() and with no snapshot preview left open) issues no native call
\* at all, raises nothing and leaves _user_id, _connected, _play_handle and
\* _real_play_handle as they were.
C11_StopStreamBeforeStartIsNoOp ==
    (last.op = "stop_stream" /\ PreRealPlayHandle < 0)
        => /\ calls = << >>
           /\ last.ret = "None"
           /\ Fields = last.pre

C11_Witness ==
    /\ last.op = "stop_stream"
    /\ last.pre = Fresh
    /\ ~handed
    /\ stream_sess = -1
    /\ calls = << >>

\* C12: a disconnect() on a Session that is not connected issues no native call and
\* changes no Session field, and a disconnect() that follows a disconnect() is such
\* a call: it changes nothing the first one left.
C12_DisconnectNotConnectedIsNoOp ==
    /\ []((last.op = "disconnect" /\ ~PreConnected)
            => (calls = << >> /\ Fields = last.pre))
    /\ [][(disconnect /\ (~_connected \/ last.op = "disconnect"))
            => UNCHANGED << fieldVars, _play_ctrl_port, nativeVars, relayVars >>]_vars

C12_Witness ==
    /\ last.op = "disconnect"
    /\ ~PreConnected
    /\ Len(pv) > 0
    /\ logins = {}
    /\ calls = << >>

\* C17: between operations, and while connect() waits in its stream test, the
\* Session is marked connected exactly when it holds a login handle:
\* _connected is true if and only if _user_id >= 0.
C17_ConnectedIffLoginHandle ==
    _connected <=> (_user_id >= 0)

C17_Witness ==
    /\ last.op = "disconnect"
    /\ PreConnected
    /\ PreUserId >= 0
    /\ ~_connected
    /\ _user_id = -1

\* C20: a connect() on a Session that is already connected returns True, issues no
\* native call (no second NET_DVR_Init, no second login) and leaves the login
\* handle and the other Session fields as they were.
C20_ConnectWhenConnectedIsNoOp ==
    (last.op = "connect" /\ PreConnected)
        => /\ last.ret = "True"
           /\ calls = << >>
           /\ Fields = last.pre
           /\ _user_id \in logins

C20_Witness ==
    /\ last.op = "connect"
    /\ PreConnected
    /\ last.ret = "True"
    /\ _user_id = PreUserId
    /\ _user_id >= 0

\* C13: when check_device_accessible() fails inside test_connection(), the user
\* step of the config flow shows the form with errors["base"] = "cannot_connect"
\* (not "unknown") and creates no entry for the host.
C13_UnreachableIsCannotConnect ==
    (host.op = "async_step_user" /\ host.path = "unreachable")
        => /\ host.ret = "form"
           /\ host.errors = "cannot_connect"
           /\ host.entry \notin config_entries

C13_Witness ==
    /\ host.op = "async_step_user"
    /\ host.path = "unreachable"
    /\ host.errors = "cannot_connect"
    /\ Issued("NET_DVR_Init") # {}
    /\ Issued("NET_DVR_Login_V30") = {}

\* C14: test_connection() hands its caller True or False on every way through it,
\* a native call that raises included, so that a user step of the config flow
\* whose test_connection() did not succeed reports "cannot_connect".
C14_TestConnectionNeverRaises ==
    (host.op = "async_step_user" /\ host.path \in TestConnectionPaths)
        => /\ test_connection_returns(host.path) \in { "True", "False" }
           /\ host.path # "ok" => host.errors = "cannot_connect"

\* C15: NET_DVR_Cleanup is issued (by disconnect(), test_connection() or __del__ of
\* one adapter) only when no other adapter of the process is marked connected.
C15_CleanupOnlyOnLastDisconnect ==
    Issued("NET_DVR_Cleanup") # {} => host.others = 0

NoDuplicates(q) == \A i, j \in DOMAIN q : q[i] = q[j] => i = j

\* C16: a step of a native callback (real_data_callback, _real_data_callback_v30,
\* _decode_callback) writes no field the host loop reads, its data goes through
\* the queue only, and no buffer put on the queue reaches a consumer twice.
C16_CallbacksOnlyFillQueue ==
    /\ [][(native_real_data \/ native_real_data_v30 \/ decode_callback)
            => UNCHANGED << fieldVars, _play_ctrl_port, _running, _current_frame >>]_vars
    /\ [](NoDuplicates(delivered \o _stream_data))

\* C18: an async_camera_image() of an entity that has no stream object yet makes
\* the adapter's start_stream() run, so that the adapter holds a preview
\* afterwards, and leaves the entity with the stream object it created.
C18_CameraImageStartsStream ==
    (host.op = "async_camera_image" /\ host.path # "reused")
        => /\ host.path = "created"
           /\ ApiOf(host.entry)._play_handle >= 0
           /\ EntityOf(host.entry)._stream # "None"

\* C19: async_setup_entry stores the adapter and sets the platform up exactly when
\* connect() returned True, and otherwise returns False with nothing stored and no
\* exception; only adapters that logged in are ever stored.  async_unload_entry
\* takes the adapter out and logs it out when the platform unload succeeded, and
\* does neither when it failed.
C19_SetupStoresOnlyWhenConnected ==
    /\ \A a \in hass_data : a._connected /\ HasEntity(a.entry)
    /\ (host.op = "async_setup_entry" /\ host.path \in ConnectPaths)
        => IF connect_returns(host.path) = "True"
              THEN host.ret = "True" /\ Stored(host.entry) /\ HasEntity(host.entry)
              ELSE host.ret = "False" /\ ~Stored(host.entry) /\ ~HasEntity(host.entry)
    /\ (host.op = "async_unload_entry" /\ host.path = "unload_ok")
        => /\ host.ret = "True"
           /\ ~Stored(host.entry)
           /\ Issued("NET_DVR_Logout") # {}
    /\ (host.op = "async_unload_entry" /\ host.path = "unload_failed")
        => /\ host.ret = "False"
           /\ Stored(host.entry)
           /\ calls = << >>

C19_Witness ==
    /\ host.op = "async_setup_entry"
    /\ host.path = "preview_failed"
    /\ host.ret = "False"
    /\ ~Stored(host.entry)
    /\ garbage # {}
    /\ hass_data # {}

\* C21: every start_stream() that returns the handler leaves _running true, so that
\* the handler's loop runs when it is invoked next, whatever happened before:
\* an earlier invocation that ended, or a handle connect()'s stream test left.
C21_HandlerImpliesRunning ==
    [][(start_stream /\ last'.ret = "handler") => _running']_vars

\* C22: when get_snapshot() has returned, _real_play_handle is -1, and if it got as
\* far as the capture (its preview had opened) it has issued NET_DVR_StopRealPlay.
C22_SnapshotLeavesNoPreview ==
    last.op = "get_snapshot"
        => /\ _real_play_handle = -1
           /\ Issued("NET_DVR_CaptureJPEGPicture_NEW") # {}
                => Issued("NET_DVR_StopRealPlay") # {}

\* C23: when a connect() that ran test_stream() has returned, _play_handle is -1,
\* and if the preview of the test had opened (no error code was fetched for it)
\* NET_DVR_StopRealPlay was issued.
C23_TestStreamLeavesNoPreview ==
    (last.op = "connect" /\ pc = "idle" /\ Issued("NET_DVR_RealPlay_V40") # {})
        => /\ _play_handle = -1
           /\ Issued("NET_DVR_GetLastError") = {} => Issued("NET_DVR_StopRealPlay") # {}

\* C24: a connect() that was waiting in its stream test returns True only when the
\* test took at least one buffer from the queue.
C24_ConnectTrueNeedsBuffer ==
    [][(last.op = "connect" /\ last.ret = "pending" /\ last'.ret = "True")
            => frames_received >= 1]_vars

\* C25: on a Session that is not connected, get_stream_url() and get_snapshot()
\* return None and pan_tilt() returns False, none of them issues a native call and
\* the Session fields stay as they were.
C25_NotConnectedIsRefused ==
    (last.op \in { "get_stream_url", "get_snapshot", "pan_tilt" } /\ ~PreConnected)
        => /\ calls = << >>
           /\ Fields = last.pre
           /\ last.ret = IF last.op = "pan_tilt" THEN "False" ELSE "None"

C25_Witness ==
    /\ last.op = "pan_tilt"
    /\ ~PreConnected
    /\ last.args = << 1, -1 >>
    /\ last.ret = "False"
    /\ Len(pv) > 0

\* C26: a pan_tilt(pan, tilt) on a connected Session sends a pan command only when
\* pan is not 0 (21 if pan > 0, else 22) and a tilt command only when tilt is not 0
\* (23 if tilt > 0, else 24), in that order.
C26_PanTiltSkipsZeroAxis ==
    (last.op = "pan_tilt" /\ PreConnected)
        => calls = (IF last.args[1] # 0
                        THEN << Call("NET_DVR_PTZControl", IF last.args[1] > 0 THEN 21 ELSE 22) >>
                        ELSE << >>)
                   \o (IF last.args[2] # 0
                        THEN << Call("NET_DVR_PTZControl", IF last.args[2] > 0 THEN 23 ELSE 24) >>
                        ELSE << >>)

====
